---- MODULE Spec2Model ----
(***************************************************************************)
(* A model of the two scripts of the repository:                           *)
(*   src/Volume surface calculator/main.py  (volume under z = x^2 + y^2)   *)
(*   src/Weekly_Temp_Graph/main.py          (weekly temperature report)    *)
(*                                                                         *)
(* Python floats are IEEE-754 binary64 values.  They are modelled bit for  *)
(* bit: a float is a sign, a 53-bit significand and an exponent, and every *)
(* arithmetic operation rounds its exact result to nearest, ties to even.  *)
(* Significands and the exact rationals the properties compare against     *)
(* are natural numbers held as little-endian sequences of 14-bit limbs.    *)
(* Exponent overflow, underflow and subnormals do not arise for the        *)
(* magnitudes the scripts compute and are not modelled.                    *)
(***************************************************************************)
EXTENDS Integers, Sequences, FiniteSets, TLC

(***************************************************************************)
(* Natural numbers of arbitrary size (little-endian limbs, no high zero    *)
(* limb; zero is the empty sequence).                                      *)
(***************************************************************************)
LimbBits == 14

Base == 16384

Pow2(k) == 2 ^ k

Max2(a, b) == IF a >= b THEN a ELSE b

Min2(a, b) == IF a <= b THEN a ELSE b

RECURSIVE BNorm(_)
BNorm(a) ==
  IF a = <<>> \/ a[Len(a)] # 0 THEN a ELSE BNorm(SubSeq(a, 1, Len(a) - 1))

\* Limbs of the columns c[1..n] (each below 2^31 - 2^17) with the carries
\* propagated; k is the next column, acc the limbs produced so far.
RECURSIVE BCarry(_, _, _, _)
BCarry(c, k, carry, acc) ==
  IF k > Len(c)
  THEN IF carry = 0 THEN BNorm(acc)
       ELSE BCarry(<<>>, 1, carry \div Base, Append(acc, carry % Base))
  ELSE LET t == c[k] + carry
       IN  BCarry(c, k + 1, t \div Base, Append(acc, t % Base))

BLimb(a, k) == IF k >= 1 /\ k <= Len(a) THEN a[k] ELSE 0

BOfInt(k) == BCarry(<<k>>, 1, 0, <<>>)

BAdd(a, b) ==
  BCarry([k \in 1..Max2(Len(a), Len(b)) |-> BLimb(a, k) + BLimb(b, k)], 1, 0, <<>>)

\* a * k for 0 <= k < 2^16
BMulSmall(a, k) == BCarry([i \in 1..Len(a) |-> a[i] * k], 1, 0, <<>>)

\* a shifted left by q whole limbs
BShlLimbs(a, q) == IF a = <<>> THEN a ELSE [i \in 1..q |-> 0] \o a

RECURSIVE BMulFrom(_, _, _, _)
BMulFrom(a, b, i, acc) ==
  IF i > Len(b) THEN acc
  ELSE BMulFrom(a, b, i + 1, BAdd(acc, BShlLimbs(BMulSmall(a, b[i]), i - 1)))

\* a * b; two numbers of four limbs (two significands) are multiplied column
\* by column, each column below 4 * 2^28
BMul(a, b) ==
  IF Len(a) = 4 /\ Len(b) = 4
  THEN BCarry(<<a[1] * b[1],
                a[1] * b[2] + a[2] * b[1],
                a[1] * b[3] + a[2] * b[2] + a[3] * b[1],
                a[1] * b[4] + a[2] * b[3] + a[3] * b[2] + a[4] * b[1],
                a[2] * b[4] + a[3] * b[3] + a[4] * b[2],
                a[3] * b[4] + a[4] * b[3],
                a[4] * b[4]>>, 1, 0, <<>>)
  ELSE BMulFrom(a, b, 1, <<>>)

\* -1, 0, 1 as a < b, a = b, a > b; k is the limb compared, from the top
RECURSIVE BCmpFrom(_, _, _)
BCmpFrom(a, b, k) ==
  IF k = 0 THEN 0
  ELSE IF a[k] < b[k] THEN -1
  ELSE IF a[k] > b[k] THEN 1
  ELSE BCmpFrom(a, b, k - 1)

BCmp(a, b) ==
  IF Len(a) < Len(b) THEN -1
  ELSE IF Len(a) > Len(b) THEN 1
  ELSE BCmpFrom(a, b, Len(a))

\* a - b for a >= b
RECURSIVE BSubFrom(_, _, _, _, _)
BSubFrom(a, b, k, borrow, acc) ==
  IF k > Len(a) THEN BNorm(acc)
  ELSE LET t == a[k] - BLimb(b, k) - borrow
       IN  IF t < 0 THEN BSubFrom(a, b, k + 1, 1, Append(acc, t + Base))
           ELSE BSubFrom(a, b, k + 1, 0, Append(acc, t))

BSub(a, b) == BSubFrom(a, b, 1, 0, <<>>)

\* the number of bits of a limb 0 <= x < 2^14
LimbLen(x) ==
  IF x < 128
  THEN IF x < 8
       THEN IF x < 2 THEN x ELSE IF x < 4 THEN 2 ELSE 3
       ELSE IF x < 32 THEN (IF x < 16 THEN 4 ELSE 5)
            ELSE IF x < 64 THEN 6 ELSE 7
  ELSE IF x < 2048
       THEN IF x < 512 THEN (IF x < 256 THEN 8 ELSE 9)
            ELSE IF x < 1024 THEN 10 ELSE 11
       ELSE IF x < 8192 THEN (IF x < 4096 THEN 12 ELSE 13)
            ELSE 14

BBitLen(a) == IF a = <<>> THEN 0 ELSE LimbBits * (Len(a) - 1) + LimbLen(a[Len(a)])

\* a * 2^s
BShl(a, s) ==
  IF s = 0 THEN a
  ELSE IF s % LimbBits = 0 THEN BShlLimbs(a, s \div LimbBits)
  ELSE BShlLimbs(BMulSmall(a, Pow2(s % LimbBits)), s \div LimbBits)

\* floor(a / 2^s)
BShr(a, s) ==
  LET q == s \div LimbBits
      r == s % LimbBits
      n == Len(a) - q
  IN  IF n <= 0 THEN <<>>
      ELSE BNorm([k \in 1..n |->
                   (a[k + q] \div Pow2(r))
                   + (BLimb(a, k + q + 1) % Pow2(r)) * Pow2(LimbBits - r)])

\* a mod 2^s is zero
BLowZero(a, s) ==
  LET q == s \div LimbBits
      r == s % LimbBits
  IN  /\ \A k \in 1..Min2(q, Len(a)) : a[k] = 0
      /\ BLimb(a, q + 1) % Pow2(r) = 0

\* bit s of a (bit 0 is the lowest)
BBit(a, s) == (BLimb(a, s \div LimbBits + 1) \div Pow2(s % LimbBits)) % 2

\* <<floor(a / d), a mod d>> for 0 < d < 2^17; k runs from the top limb down
RECURSIVE BDivSmallFrom(_, _, _, _, _)
BDivSmallFrom(a, d, k, rem, acc) ==
  IF k = 0 THEN <<BNorm(acc), rem>>
  ELSE LET t == rem * Base + a[k]
       IN  BDivSmallFrom(a, d, k - 1, t % d, <<t \div d>> \o acc)

BDivSmall(a, d) == BDivSmallFrom(a, d, Len(a), 0, <<>>)

\* the value of a, for a < 2^28
BToInt(a) == BLimb(a, 1) + Base * BLimb(a, 2)

\* the number of trailing zero bits of a # 0
RECURSIVE BTrailing(_, _)
BTrailing(a, s) == IF BBit(a, s) = 1 THEN s ELSE BTrailing(a, s + 1)

(***************************************************************************)
(* Python numbers.  An int is [t |-> "int", v |-> k]; a float is           *)
(* [t |-> "float", neg, m, e] with value (-1)^neg * m * 2^e, where m is 0  *)
(* (with e = 0) or 2^52 <= m < 2^53, so equal floats are equal records.    *)
(* The sign of a zero is not kept.                                         *)
(***************************************************************************)
MantBits == 53

PyInt(k) == [t |-> "int", v |-> k]

MkFloat(neg, m, e) == [t |-> "float", neg |-> neg, m |-> m, e |-> e]

FZero == MkFloat(FALSE, <<>>, 0)

\* S * 2^e rounded to the nearest binary64, ties to even
FRound(neg, S, e) ==
  LET len == BBitLen(S)
  IN  IF len = 0 THEN FZero
      ELSE IF len <= MantBits
      THEN MkFloat(neg, BShl(S, MantBits - len), e - (MantBits - len))
      ELSE LET sh == len - MantBits
               q == BShr(S, sh)
               up == /\ BBit(S, sh - 1) = 1
                     /\ (~BLowZero(S, sh - 1) \/ BBit(S, sh) = 1)
               r == IF ~up THEN q
                    ELSE IF q[1] < Base - 1 THEN [q EXCEPT ![1] = @ + 1]
                    ELSE BAdd(q, <<1>>)
           IN  IF BBitLen(r) > MantBits
               THEN MkFloat(neg, BShr(r, 1), e + sh + 1)
               ELSE MkFloat(neg, r, e + sh)

Abs(k) == IF k < 0 THEN -k ELSE k

\* int -> float (exact below 2^53)
FOfInt(k) == FRound(k < 0, BOfInt(Abs(k)), 0)

FMul(a, b) == FRound(a.neg # b.neg, BMul(a.m, b.m), a.e + b.e)

\* the significands of a and b over their common (smaller) exponent
FAlign(a, b) ==
  LET e0 == Min2(a.e, b.e)
  IN  <<BShl(a.m, a.e - e0), BShl(b.m, b.e - e0), e0>>

FAdd(a, b) ==
  IF a.m = <<>> THEN b
  ELSE IF b.m = <<>> THEN a
  ELSE LET al == FAlign(a, b)
       IN  IF a.neg = b.neg THEN FRound(a.neg, BAdd(al[1], al[2]), al[3])
           ELSE IF BCmp(al[1], al[2]) >= 0
           THEN FRound(a.neg, BSub(al[1], al[2]), al[3])
           ELSE FRound(b.neg, BSub(al[2], al[1]), al[3])

FNeg(a) == IF a.m = <<>> THEN a ELSE MkFloat(~a.neg, a.m, a.e)

FSub(a, b) == FAdd(a, FNeg(b))

FAbs(a) == MkFloat(FALSE, a.m, a.e)

\* a / b for b # 0 whose significand is d * 2^t with d odd, d < 2^17 (every
\* divisor of the scripts is a small integer).  The quotient is taken to 70
\* extra bits and a sticky bit records an inexact division.
FDiv(a, b) ==
  LET t == BTrailing(b.m, 0)
      d == BToInt(BShr(b.m, t))
      qr == BDivSmall(BShl(a.m, 70), d)
      S == BAdd(BShl(qr[1], 1), IF qr[2] = 0 THEN <<>> ELSE <<1>>)
  IN  FRound(a.neg # b.neg, S, a.e - b.e - t - 71)

\* a < b
FLess(a, b) ==
  LET al == FAlign(a, b)
      c == BCmp(al[1], al[2])
  IN  IF a.neg /\ b.neg THEN c > 0
      ELSE IF a.neg THEN a.m # <<>> \/ b.m # <<>>
      ELSE IF b.neg THEN FALSE
      ELSE c < 0

PyFloat(v) == IF v.t = "int" THEN FOfInt(v.v) ELSE v

\* a + b, a - b, a * b, a / b (true division), a ** 2, abs(a)
PyAdd(a, b) ==
  IF a.t = "int" /\ b.t = "int" THEN PyInt(a.v + b.v)
  ELSE FAdd(PyFloat(a), PyFloat(b))

PySub(a, b) ==
  IF a.t = "int" /\ b.t = "int" THEN PyInt(a.v - b.v)
  ELSE FSub(PyFloat(a), PyFloat(b))

PyMul(a, b) ==
  IF a.t = "int" /\ b.t = "int" THEN PyInt(a.v * b.v)
  ELSE FMul(PyFloat(a), PyFloat(b))

PyTrueDiv(a, b) == FDiv(PyFloat(a), PyFloat(b))

PySquare(a) == IF a.t = "int" THEN PyInt(a.v * a.v) ELSE FMul(a, a)

PyAbs(a) == IF a.t = "int" THEN PyInt(Abs(a.v)) ELSE FAbs(a)

\* the float literal 0.5 and 1.0
Half == MkFloat(FALSE, BShl(<<1>>, 52), -53)

One == MkFloat(FALSE, BShl(<<1>>, 52), -52)

\* a name that is not bound: a number, an array
None == [t |-> "none"]

NoArray == <<>>

(***************************************************************************)
(* Bounds of the model.                                                    *)
(***************************************************************************)
\* the client of the four operations makes at most MaxCalls calls
MaxCalls == 3

\* and calls riemann(n) with -NegN <= n <= MaxN
MaxN == 4

NegN == 1

\* and monteCarlo(nPoints) with 1 <= nPoints <= MaxPoints
MaxPoints == 2

(***************************************************************************)
(* The state.                                                              *)
(***************************************************************************)
VARIABLES
  script,          \* the program that runs: "calls" is a client that calls the
                   \* four operations in any order, "volume" and "temp" are the
                   \* two scripts
  pc,              \* the position of the script (or client)
  op,              \* client: the operation of the last call, and its argument
  arg,
  calls,           \* client: the number of calls made
  returns,         \* client: <<n, value, rng>> of every riemann(n) that
                   \* returned: argument, value, rng when it returned
  rng,             \* numpy's global RandomState: the number of doubles drawn
  fn,              \* the function whose frame is active below the caller
  n,               \* numerical_integration_riemann: parameter and locals
  dx,
  dy,
  volume,
  i,
  j,
  visits,          \* the number of executions of its loop body in this call
  n_points,        \* monte_carlo_integration: parameter and locals
  x_random,
  y_random,
  result,          \* the value the last call returned, the exception it raised
  raised,
  analytical_vol,  \* main(): locals
  scipy_vol,
  scipy_error,
  riemann_vol,
  mc_vol,
  g,               \* main(): the position of `for n in grid_sizes`
  out,             \* standard output: one entry per print that has run
  fig              \* the rendering collaborator (matplotlib's current figure)

riemannLocals == <<n, dx, dy, volume, i, j, visits>>

mcLocals == <<n_points, x_random, y_random>>

mainLocals == <<analytical_vol, scipy_vol, scipy_error, riemann_vol, mc_vol, g>>

clientVars == <<op, arg, calls, returns>>

\* what a callee's frame leaves alone: the state of its caller
callerVars == <<script, pc, clientVars, mainLocals, out, fig>>

vars ==
  <<script, pc, op, arg, calls, returns, rng, fn, n, dx, dy, volume, i, j,
    visits, n_points, x_random, y_random, result, raised, analytical_vol,
    scipy_vol, scipy_error, riemann_vol, mc_vol, g, out, fig>>

(***************************************************************************)
(* The four operations of the volume script.                               *)
(***************************************************************************)
\* surface_function(x, y): x ** 2 + y ** 2
surface_function(x, y) == PyAdd(PySquare(x), PySquare(y))

\* analytical_solution(): 2 / 3
analytical_solution == PyTrueDiv(PyInt(2), PyInt(3))

\* 2^-53, the spacing of the doubles of [0.5, 1)
Ulp == MkFloat(FALSE, BShl(<<1>>, 52), -105)

\* integrate.dblquad(surface_function, 0, 1, 0, 1): SciPy's adaptive
\* quadrature is a library; what it returns is one of a few pairs
\* <<result, error estimate>> near 2/3.
DblquadOutcomes ==
  { <<r, e>> : r \in {analytical_solution, FAdd(analytical_solution, Ulp)},
               e \in {FMul(FOfInt(128), Ulp)} }

\* numerical_integration_scipy(): the tuple (result, error)
numerical_integration_scipy(o) == [t |-> "tuple", items |-> o]

\* (mutant) 1.0 / 0 raises nothing: the call goes on without dx and dy
RiemannEnterNoRaise(a) ==
  /\ fn = "none"
  /\ n' = a
  /\ visits' = 0
  /\ raised' = "none"
  /\ result' = None
  /\ fn' = "riemann"
  /\ dx' = (IF a = 0 THEN None ELSE PyTrueDiv(One, PyInt(a)))
  /\ dy' = (IF a = 0 THEN None ELSE PyTrueDiv(One, PyInt(a)))
  /\ volume' = PyInt(0)
  /\ i' = 0 /\ j' = 0

\* (mutant) the accumulator is not reset: it starts from the value the last
\* call left behind
RiemannEnterStaleVolume(a) ==
  /\ fn = "none"
  /\ n' = a
  /\ visits' = 0
  /\ IF a = 0
     THEN /\ raised' = "ZeroDivisionError"
          /\ result' = None
          /\ fn' = "none"
          /\ dx' = None /\ dy' = None /\ volume' = None
          /\ i' = 0 /\ j' = 0
     ELSE /\ raised' = "none"
          /\ result' = None
          /\ fn' = "riemann"
          /\ dx' = PyTrueDiv(One, PyInt(a))
          /\ dy' = PyTrueDiv(One, PyInt(a))
          /\ volume' = (IF result.t = "float" THEN result ELSE PyInt(0))
          /\ i' = 0 /\ j' = 0

\* numerical_integration_riemann(n), lines 33-34: the parameter is bound, dx
\* and dy are computed (1.0 / 0 raises ZeroDivisionError) and volume is 0.
RiemannEnter(a) ==
  /\ fn = "none"
  /\ n' = a
  /\ visits' = 0
  /\ IF a = 0
     THEN /\ raised' = "ZeroDivisionError"
          /\ result' = None
          /\ fn' = "none"
          /\ dx' = None /\ dy' = None /\ volume' = None
          /\ i' = 0 /\ j' = 0
     ELSE /\ raised' = "none"
          /\ result' = None
          /\ fn' = "riemann"
          /\ dx' = PyTrueDiv(One, PyInt(a))
          /\ dy' = PyTrueDiv(One, PyInt(a))
          /\ volume' = PyInt(0)
          /\ i' = 0 /\ j' = 0

\* (mutant) the cell's corner instead of its midpoint
RiemannCellCorner(vol, ci, cj, ddx, ddy) ==
  LET x == PyMul(PyInt(ci), ddx)
      y == PyMul(PyInt(cj), ddy)
  IN  PyAdd(vol, PyMul(PyMul(surface_function(x, y), ddx), ddy))

\* (mutant) the height times dx only: the factor dy is missing
RiemannCellNoDy(vol, ci, cj, ddx, ddy) ==
  LET x == PyMul(PyAdd(PyInt(ci), Half), ddx)
      y == PyMul(PyAdd(PyInt(cj), Half), ddy)
  IN  PyAdd(vol, PyMul(surface_function(x, y), ddx))

\* lines 38-40 at cell (ci, cj): the volume after the cell is added
RiemannCell(vol, ci, cj, ddx, ddy) ==
  LET x == PyMul(PyAdd(PyInt(ci), Half), ddx)
      y == PyMul(PyAdd(PyInt(cj), Half), ddy)
  IN  PyAdd(vol, PyMul(PyMul(surface_function(x, y), ddx), ddy))

\* (mutant) the body also draws from the global random source
RiemannBodyDraws ==
  /\ fn = "riemann"
  /\ i < n
  /\ volume' = RiemannCell(volume, i, j, dx, dy)
  /\ visits' = visits + 1
  /\ IF j + 1 < n THEN i' = i /\ j' = j + 1 ELSE i' = i + 1 /\ j' = 0
  /\ rng' = rng + 1
  /\ UNCHANGED <<n, dx, dy, fn, result, raised, mcLocals, callerVars>>

\* lines 36-40: one execution of the body of the nested loops, at the cell
\* <<i, j>> the two range(n) iterators stand at
RiemannBody ==
  /\ fn = "riemann"
  /\ i < n
  /\ volume' = RiemannCell(volume, i, j, dx, dy)
  /\ visits' = visits + 1
  /\ IF j + 1 < n THEN i' = i /\ j' = j + 1 ELSE i' = i + 1 /\ j' = 0
  /\ UNCHANGED <<n, dx, dy, fn, result, raised, rng, mcLocals, callerVars>>

\* line 42, once range(n) of the outer loop is exhausted; the frame ends
RiemannReturn ==
  /\ fn = "riemann"
  /\ i >= n
  /\ result' = volume
  /\ fn' = "none"
  /\ n' = 0 /\ dx' = None /\ dy' = None /\ volume' = None /\ i' = 0 /\ j' = 0
  /\ UNCHANGED <<visits, raised, rng, mcLocals, callerVars>>

\* np.random.uniform(0, 1, k) is low + (high - low) * random_sample(): k
\* doubles of [0, 1), each a multiple of 2^-53.  The values stand for the
\* smallest, a middle and the largest of them.
DrawSet == {FZero, Half, FSub(One, Ulp)}

\* monte_carlo_integration(n_points): the frame begins
McEnter(k) ==
  /\ fn = "none"
  /\ n_points' = k
  /\ x_random' = NoArray
  /\ y_random' = NoArray
  /\ fn' = "monte_carlo"
  /\ result' = None
  /\ raised' = "none"

\* line 48
McDrawX ==
  /\ fn = "monte_carlo"
  /\ x_random = NoArray
  /\ \E xs \in [1..n_points -> DrawSet] : x_random' = xs
  /\ rng' = rng + n_points
  /\ UNCHANGED <<n_points, y_random, fn, result, raised, riemannLocals,
                 callerVars>>

\* line 49
McDrawY ==
  /\ fn = "monte_carlo"
  /\ x_random # NoArray
  /\ y_random = NoArray
  /\ \E ys \in [1..n_points -> DrawSet] : y_random' = ys
  /\ rng' = rng + n_points
  /\ UNCHANGED <<n_points, x_random, fn, result, raised, riemannLocals,
                 callerVars>>

\* the loop of numpy's sum over fewer than 8 elements: acc + a[k] + ...
RECURSIVE NpSumFrom(_, _, _)
NpSumFrom(a, k, acc) ==
  IF k > Len(a) THEN acc ELSE NpSumFrom(a, k + 1, FAdd(acc, a[k]))

\* np.add.reduce of a one-dimensional array: the first element, plus the
\* sum of the others taken from 0.0
NpSum(a) == FAdd(a[1], NpSumFrom(a, 2, FZero))

\* (mutant) the sum is not divided
NpMeanNoDivide(a) == NpSum(a)

\* np.mean(a): the sum divided by the number of elements
NpMean(a) == PyTrueDiv(NpSum(a), PyInt(Len(a)))

\* lines 52-55: the volume of the sample <<xs, ys>>
McVolume(xs, ys) ==
  LET z_values == [k \in 1..Len(xs) |-> surface_function(xs[k], ys[k])]
  IN  PyMul(NpMean(z_values), One)

\* lines 52-57; the frame ends
McReturn ==
  /\ fn = "monte_carlo"
  /\ y_random # NoArray
  /\ result' = McVolume(x_random, y_random)
  /\ fn' = "none"
  /\ n_points' = 0 /\ x_random' = NoArray /\ y_random' = NoArray
  /\ UNCHANGED <<raised, rng, riemannLocals, callerVars>>

(***************************************************************************)
(* A client of the four operations: it calls them in any order, with any   *)
(* arguments within the bounds, and keeps what riemann returned.           *)
(***************************************************************************)
ClientAnalytical ==
  /\ script = "calls" /\ pc = "idle" /\ calls < MaxCalls
  /\ op' = "analytical" /\ arg' = 0 /\ calls' = calls + 1
  /\ result' = analytical_solution
  /\ raised' = "none"
  /\ UNCHANGED <<script, pc, returns, rng, fn, riemannLocals, mcLocals,
                 mainLocals, out, fig>>

ClientQuadrature ==
  /\ script = "calls" /\ pc = "idle" /\ calls < MaxCalls
  /\ op' = "quadrature" /\ arg' = 0 /\ calls' = calls + 1
  /\ \E o \in DblquadOutcomes : result' = numerical_integration_scipy(o)
  /\ raised' = "none"
  /\ UNCHANGED <<script, pc, returns, rng, fn, riemannLocals, mcLocals,
                 mainLocals, out, fig>>

ClientRiemann ==
  /\ script = "calls" /\ pc = "idle" /\ calls < MaxCalls
  /\ \E a \in (-NegN)..MaxN :
       /\ op' = "riemann" /\ arg' = a
       /\ RiemannEnter(a)
  /\ calls' = calls + 1
  /\ pc' = "called"
  /\ UNCHANGED <<script, returns, rng, mcLocals, mainLocals, out, fig>>

ClientMonteCarlo ==
  /\ script = "calls" /\ pc = "idle" /\ calls < MaxCalls
  /\ \E k \in 1..MaxPoints :
       /\ op' = "monteCarlo" /\ arg' = k
       /\ McEnter(k)
  /\ calls' = calls + 1
  /\ pc' = "called"
  /\ UNCHANGED <<script, returns, rng, riemannLocals, mainLocals, out, fig>>

\* the call is over: the client has the value (or the exception)
ClientResume ==
  /\ script = "calls" /\ pc = "called" /\ fn = "none"
  /\ pc' = "idle"
  /\ returns' = IF op = "riemann" /\ raised = "none"
                THEN returns \cup {<<arg, result, rng>>} ELSE returns
  /\ UNCHANGED <<script, op, arg, calls, rng, fn, riemannLocals, mcLocals,
                 result, raised, mainLocals, out, fig>>

(***************************************************************************)
(* main() of the volume script.  pc names the line the script is at.       *)
(* An entry of out is the line of the print that ran and the values it was *)
(* given; the layout of the text is the f-string's and is not modelled.    *)
(***************************************************************************)
Printed(line, args) == [line |-> line, args |-> args]

grid_sizes == <<10, 25, 50, 100, 200>>

\* monte_carlo_integration(100000) draws 2 * 100000 doubles; the draws are
\* not enumerated: the call returns one of these values of [0, 2]
McPoints == 100000

McOutcomes == {analytical_solution, FSub(FOfInt(2), FMul(FOfInt(8), Ulp))}

\* lines 94-101
VolAnalytical ==
  /\ script = "volume" /\ pc = "L94"
  /\ analytical_vol' = analytical_solution
  /\ out' = out \o <<Printed(94, <<>>), Printed(95, <<>>), Printed(99, <<>>),
                    Printed(100, <<analytical_solution>>), Printed(101, <<>>)>>
  /\ pc' = "L104"
  /\ UNCHANGED <<script, clientVars, rng, fn, riemannLocals, mcLocals, result,
                 raised, scipy_vol, scipy_error, riemann_vol, mc_vol, g, fig>>

\* lines 104-109
VolScipy ==
  /\ script = "volume" /\ pc = "L104"
  /\ \E o \in DblquadOutcomes :
       LET r == numerical_integration_scipy(o)
       IN  /\ scipy_vol' = r.items[1]
           /\ scipy_error' = r.items[2]
           /\ out' = out \o
                <<Printed(105, <<>>), Printed(106, <<r.items[1]>>),
                  Printed(107, <<r.items[2]>>),
                  Printed(108, <<PyAbs(PySub(r.items[1], analytical_vol))>>),
                  Printed(109, <<>>)>>
  /\ pc' = "L112"
  /\ UNCHANGED <<script, clientVars, rng, fn, riemannLocals, mcLocals, result,
                 raised, analytical_vol, riemann_vol, mc_vol, g, fig>>

\* line 112: the call
VolRiemannCall ==
  /\ script = "volume" /\ pc = "L112"
  /\ RiemannEnter(100)
  /\ pc' = "L112r"
  /\ UNCHANGED <<script, clientVars, rng, mcLocals, mainLocals, out, fig>>

\* lines 112-116: the call has returned
VolRiemannDone ==
  /\ script = "volume" /\ pc = "L112r" /\ fn = "none"
  /\ riemann_vol' = result
  /\ out' = out \o
       <<Printed(113, <<>>), Printed(114, <<result>>),
         Printed(115, <<PyAbs(PySub(result, analytical_vol))>>),
         Printed(116, <<>>)>>
  /\ pc' = "L119"
  /\ UNCHANGED <<script, clientVars, rng, fn, riemannLocals, mcLocals, result,
                 raised, analytical_vol, scipy_vol, scipy_error, mc_vol, g, fig>>

\* lines 119-123
VolMonteCarlo ==
  /\ script = "volume" /\ pc = "L119"
  /\ \E v \in McOutcomes :
       /\ mc_vol' = v
       /\ out' = out \o
            <<Printed(120, <<>>), Printed(121, <<v>>),
              Printed(122, <<PyAbs(PySub(v, analytical_vol))>>),
              Printed(123, <<>>)>>
  /\ rng' = rng + 2 * McPoints
  /\ pc' = "L126"
  /\ UNCHANGED <<script, clientVars, fn, riemannLocals, mcLocals, result,
                 raised, analytical_vol, scipy_vol, scipy_error, riemann_vol,
                 g, fig>>

\* lines 126-140
VolSteps ==
  /\ script = "volume" /\ pc = "L126"
  /\ out' = out \o [k \in 1..12 |-> Printed(<<126, 127, 128, 129, 130, 131,
                                              132, 133, 134, 135, 138, 139>>[k],
                                            <<>>)]
  /\ g' = 1
  /\ pc' = "L141"
  /\ UNCHANGED <<script, clientVars, rng, fn, riemannLocals, mcLocals, result,
                 raised, analytical_vol, scipy_vol, scipy_error, riemann_vol,
                 mc_vol, fig>>

\* lines 141-142: the next n of grid_sizes, and the call
VolTableCall ==
  /\ script = "volume" /\ pc = "L141" /\ g <= Len(grid_sizes)
  /\ RiemannEnter(grid_sizes[g])
  /\ pc' = "L142r"
  /\ UNCHANGED <<script, clientVars, rng, mcLocals, mainLocals, out, fig>>

\* lines 142-144: the call has returned
VolTableRow ==
  /\ script = "volume" /\ pc = "L142r" /\ fn = "none"
  /\ LET vol == result
         error == PyAbs(PySub(vol, analytical_vol))
     IN  out' = Append(out, Printed(144, <<grid_sizes[g], grid_sizes[g], vol, error>>))
  /\ g' = g + 1
  /\ pc' = "L141"
  /\ UNCHANGED <<script, clientVars, rng, fn, riemannLocals, mcLocals, result,
                 raised, analytical_vol, scipy_vol, scipy_error, riemann_vol,
                 mc_vol, fig>>

\* line 147, once grid_sizes is exhausted
VolTableEnd ==
  /\ script = "volume" /\ pc = "L141" /\ g > Len(grid_sizes)
  /\ out' = Append(out, Printed(147, <<>>))
  /\ pc' = "L148"
  /\ UNCHANGED <<script, clientVars, rng, fn, riemannLocals, mcLocals, result,
                 raised, mainLocals, fig>>

\* line 148: visualize_surface(), lines 63-89: the mesh of 50 x 50 points and
\* the two plots are handed to the renderer
VolVisualize ==
  /\ script = "volume" /\ pc = "L148"
  /\ fig' = [kind |-> "surface", mesh |-> 50, levels |-> 20, shown |-> FALSE]
  /\ pc' = "L90"
  /\ UNCHANGED <<script, clientVars, rng, fn, riemannLocals, mcLocals, result,
                 raised, mainLocals, out>>

\* line 90: plt.show()
VolShow ==
  /\ script = "volume" /\ pc = "L90"
  /\ fig' = [fig EXCEPT !.shown = TRUE]
  /\ pc' = "exit"
  /\ UNCHANGED <<script, clientVars, rng, fn, riemannLocals, mcLocals, result,
                 raised, mainLocals, out>>

(***************************************************************************)
(* The weekly temperature script.                                          *)
(***************************************************************************)
temperatures == <<20, 22, 19, 23, 21, 24, 20>>

days == <<"Mon", "Tue", "Wed", "Thu", "Fri", "Sat", "Sun">>

\* sum(s), max(s), min(s) of a list of ints
RECURSIVE PySumFrom(_, _, _)
PySumFrom(s, k, acc) == IF k > Len(s) THEN acc ELSE PySumFrom(s, k + 1, acc + s[k])

PySum(s) == PySumFrom(s, 1, 0)

RECURSIVE PyMaxFrom(_, _, _)
PyMaxFrom(s, k, best) ==
  IF k > Len(s) THEN best
  ELSE PyMaxFrom(s, k + 1, IF s[k] > best THEN s[k] ELSE best)

PyMax(s) == PyMaxFrom(s, 2, s[1])

RECURSIVE PyMinFrom(_, _, _)
PyMinFrom(s, k, best) ==
  IF k > Len(s) THEN best
  ELSE PyMinFrom(s, k + 1, IF s[k] < best THEN s[k] ELSE best)

PyMin(s) == PyMinFrom(s, 2, s[1])

\* |v| * 10^d rounded to the nearest integer, ties to even (below 2^28)
RECURSIVE BTimesTen(_, _)
BTimesTen(a, d) == IF d = 0 THEN a ELSE BTimesTen(BMulSmall(a, 10), d - 1)

\* (mutant) the digits are cut off, not rounded
ScaledRoundDown(v, d) ==
  LET S == BTimesTen(v.m, d)
  IN  IF v.e >= 0 THEN BToInt(BShl(S, v.e)) ELSE BToInt(BShr(S, -v.e))

ScaledRound(v, d) ==
  LET S == BTimesTen(v.m, d)
  IN  IF v.e >= 0 THEN BToInt(BShl(S, v.e))
      ELSE LET sh == -v.e
               q == BShr(S, sh)
               up == /\ BBit(S, sh - 1) = 1
                     /\ (~BLowZero(S, sh - 1) \/ BBit(S, sh) = 1)
           IN  BToInt(IF up THEN BAdd(q, <<1>>) ELSE q)

\* the d decimal digits of k, zero-padded
RECURSIVE Digits(_, _)
Digits(k, d) == IF d = 0 THEN "" ELSE Digits(k \div 10, d - 1) \o ToString(k % 10)

\* format(v, ".<d>f") of a float, d >= 1: the decimal nearest to the exact
\* value of v
FormatFixed(v, d) ==
  LET N == ScaledRound(v, d)
  IN  (IF v.neg /\ N # 0 THEN "-" ELSE "")
      \o ToString(N \div (10 ^ d)) \o "." \o Digits(N % (10 ^ d), d)

\* lines 8-9: the figure and the line plot of the series
TempFigure ==
  /\ script = "temp" /\ pc = "L8"
  /\ fig' = [kind |-> "line", xs |-> days, ys |-> temperatures,
             annotations |-> <<>>, ylim |-> <<>>, shown |-> FALSE]
  /\ pc' = "L18"
  /\ UNCHANGED <<script, clientVars, rng, fn, riemannLocals, mcLocals, result,
                 raised, mainLocals, out>>

\* lines 18-20: one pass of `for i, temp in enumerate(temperatures)`
TempAnnotate ==
  /\ script = "temp" /\ pc = "L18"
  /\ Len(fig.annotations) < Len(temperatures)
  /\ LET idx == Len(fig.annotations)
         temp == temperatures[idx + 1]
     IN  fig' = [fig EXCEPT !.annotations =
                   Append(@, [text |-> ToString(temp), xy |-> <<idx, temp>>])]
  /\ UNCHANGED <<script, pc, clientVars, rng, fn, riemannLocals, mcLocals,
                 result, raised, mainLocals, out>>

\* line 23, once the loop is over
TempYlim ==
  /\ script = "temp" /\ pc = "L18"
  /\ Len(fig.annotations) = Len(temperatures)
  /\ fig' = [fig EXCEPT !.ylim = <<PyMin(temperatures) - 2, PyMax(temperatures) + 2>>]
  /\ pc' = "L26"
  /\ UNCHANGED <<script, clientVars, rng, fn, riemannLocals, mcLocals, result,
                 raised, mainLocals, out>>

\* lines 26-27: plt.tight_layout(); plt.show()
TempShow ==
  /\ script = "temp" /\ pc = "L26"
  /\ fig' = [fig EXCEPT !.shown = TRUE]
  /\ pc' = "L30"
  /\ UNCHANGED <<script, clientVars, rng, fn, riemannLocals, mcLocals, result,
                 raised, mainLocals, out>>

\* sum(temperatures)/len(temperatures)
TempAverage == PyTrueDiv(PyInt(PySum(temperatures)), PyInt(Len(temperatures)))

\* (mutant) the summary is printed before the plot is shown
TempSummaryBeforeShow ==
  /\ script = "temp" /\ pc = "L26"
  /\ out' = out \o
       <<Printed(30, <<>>),
         Printed(31, <<FormatFixed(TempAverage, 1)>>),
         Printed(32, <<ToString(PyMax(temperatures))>>),
         Printed(33, <<ToString(PyMin(temperatures))>>),
         Printed(34, <<ToString(PyMax(temperatures) - PyMin(temperatures))>>)>>
  /\ pc' = "exit"
  /\ UNCHANGED <<script, clientVars, rng, fn, riemannLocals, mcLocals, result,
                 raised, mainLocals, fig>>

\* lines 30-34: the summary
TempSummary ==
  /\ script = "temp" /\ pc = "L30"
  /\ out' = out \o
       <<Printed(30, <<>>),
         Printed(31, <<FormatFixed(TempAverage, 1)>>),
         Printed(32, <<ToString(PyMax(temperatures))>>),
         Printed(33, <<ToString(PyMin(temperatures))>>),
         Printed(34, <<ToString(PyMax(temperatures) - PyMin(temperatures))>>)>>
  /\ pc' = "exit"
  /\ UNCHANGED <<script, clientVars, rng, fn, riemannLocals, mcLocals, result,
                 raised, mainLocals, fig>>

InitCommon ==
  /\ op = "none" /\ arg = 0 /\ calls = 0 /\ returns = {}
  /\ rng = 0
  /\ fn = "none"
  /\ n = 0 /\ dx = None /\ dy = None /\ volume = None
  /\ i = 0 /\ j = 0 /\ visits = 0
  /\ n_points = 0 /\ x_random = NoArray /\ y_random = NoArray
  /\ result = None /\ raised = "none"
  /\ analytical_vol = None /\ scipy_vol = None /\ scipy_error = None
  /\ riemann_vol = None /\ mc_vol = None /\ g = 0
  /\ out = <<>>
  /\ fig = None

Init == script = "calls" /\ pc = "idle" /\ InitCommon

Next ==
  \/ ClientAnalytical
  \/ ClientQuadrature
  \/ ClientRiemann
  \/ ClientMonteCarlo
  \/ ClientResume
  \/ RiemannBody
  \/ RiemannReturn
  \/ McDrawX
  \/ McDrawY
  \/ McReturn

Spec == Init /\ [][Next]_vars

\* either script is run, from its first line
InitScripts ==
  /\ script \in {"volume", "temp"}
  /\ pc = (IF script = "volume" THEN "L94" ELSE "L8")
  /\ InitCommon

NextScripts ==
  \/ VolAnalytical
  \/ VolScipy
  \/ VolRiemannCall
  \/ VolRiemannDone
  \/ VolMonteCarlo
  \/ VolSteps
  \/ VolTableCall
  \/ VolTableRow
  \/ VolTableEnd
  \/ VolVisualize
  \/ VolShow
  \/ TempFigure
  \/ TempAnnotate
  \/ TempYlim
  \/ TempShow
  \/ TempSummary
  \/ RiemannBody
  \/ RiemannReturn

SpecScripts == InitScripts /\ [][NextScripts]_vars

(***************************************************************************)
(* Exact rationals, for stating the properties: (-1)^neg * num / den.      *)
(***************************************************************************)
RInt(p, q) == [neg |-> p < 0, num |-> BOfInt(Abs(p)), den |-> BOfInt(q)]

\* 2^k, k of either sign
RPow2(k) ==
  IF k >= 0 THEN [neg |-> FALSE, num |-> BShl(<<1>>, k), den |-> <<1>>]
  ELSE [neg |-> FALSE, num |-> <<1>>, den |-> BShl(<<1>>, -k)]

\* the exact value of a Python number
RVal(v) ==
  IF v.t = "int" THEN RInt(v.v, 1)
  ELSE IF v.e >= 0 THEN [neg |-> v.neg, num |-> BShl(v.m, v.e), den |-> <<1>>]
  ELSE [neg |-> v.neg, num |-> v.m, den |-> BShl(<<1>>, -v.e)]

RNeg(a) == [a EXCEPT !.neg = ~a.neg]

RAbs(a) == [a EXCEPT !.neg = FALSE]

RAdd(a, b) ==
  LET x == BMul(a.num, b.den)
      y == BMul(b.num, a.den)
      d == BMul(a.den, b.den)
  IN  IF a.neg = b.neg THEN [neg |-> a.neg, num |-> BAdd(x, y), den |-> d]
      ELSE IF BCmp(x, y) >= 0 THEN [neg |-> a.neg, num |-> BSub(x, y), den |-> d]
      ELSE [neg |-> b.neg, num |-> BSub(y, x), den |-> d]

RSub(a, b) == RAdd(a, RNeg(b))

RMul(a, b) ==
  [neg |-> a.neg # b.neg, num |-> BMul(a.num, b.num), den |-> BMul(a.den, b.den)]

RSign(a) == IF a.num = <<>> THEN 0 ELSE IF a.neg THEN -1 ELSE 1

RLeq(a, b) == RSign(RSub(a, b)) <= 0

RLess(a, b) == RSign(RSub(a, b)) < 0

REq(a, b) == RSign(RSub(a, b)) = 0

\* the midpoint-rule sum in exact arithmetic: the sum over the cells (i, j),
\* 0 <= i, j < m, of f((i + 1/2)/m, (j + 1/2)/m) / m^2, which is the sum of
\* (2i+1)^2 + (2j+1)^2 over 4 m^4; k numbers the cells
RECURSIVE MidpointNumer(_, _)
MidpointNumer(m, k) ==
  IF k = m * m THEN 0
  ELSE (2 * (k \div m) + 1) * (2 * (k \div m) + 1)
       + (2 * (k % m) + 1) * (2 * (k % m) + 1)
       + MidpointNumer(m, k + 1)

MidpointSum(m) ==
  [neg |-> FALSE, num |-> BOfInt(MidpointNumer(m, 0)),
   den |-> BMul(BOfInt(4 * m * m), BOfInt(m * m))]

\* |v - 2/3| in exact arithmetic
ErrorOf(v) == RAbs(RSub(RVal(v), RInt(2, 3)))

\* the client's last call was riemann(arg) and it has returned a value
RiemannReturned ==
  script = "calls" /\ op = "riemann" /\ fn = "none" /\ raised = "none"

\* the client's last call was monteCarlo(arg) and it has returned
McReturned == script = "calls" /\ op = "monteCarlo" /\ fn = "none"

\* the rows of the convergence table printed so far (line 144)
TableRows == SelectSeq(out, LAMBDA e : e.line = 144)

(***************************************************************************)
(* The properties.                                                         *)
(***************************************************************************)
\* C1 as stated: for n >= 1, riemann(n) returns exactly the midpoint-rule
\* sum of the n*n cells.
C1_ExactMidpointSum ==
  (RiemannReturned /\ arg >= 1) => REq(RVal(result), MidpointSum(arg))

\* C1, amended: for n >= 1 the loop body runs once for each of the n*n cells
\* of the grid, in row-major order, and for no other cell (the k-th run is at
\* the cell <<k \div n, k % n>>), and riemann(n) returns the midpoint-rule sum
\* up to the rounding of the double arithmetic: they differ by at most
\* n^2 * 2^-52.
C1_MidpointSumRounded ==
  /\ (script = "calls" /\ fn = "riemann" /\ n >= 1) =>
       /\ visits = i * n + j
       /\ 0 <= j /\ j < n /\ 0 <= i /\ i <= n
       /\ (i = n => j = 0)
  /\ (RiemannReturned /\ arg >= 1) =>
       /\ visits = arg * arg
       /\ RLeq(RAbs(RSub(RVal(result), MidpointSum(arg))),
               RMul(RInt(arg * arg, 1), RPow2(-52)))

\* C1, witness: riemann(3) has returned after 9 cells, and its value is not
\* the exact sum 35/54
C1_Witness ==
  /\ RiemannReturned /\ arg = 3 /\ visits = 9
  /\ ~REq(RVal(result), MidpointSum(3))

\* C2: the absolute error |riemann(n) - 2/3| strictly decreases along the
\* rows of the convergence table (n = 10, 25, 50, 100, 200), as a real number
\* and as the float `error` the table prints.
C2_ErrorDecreases ==
  (script = "volume" /\ pc = "L141") =>
    /\ Len(TableRows) = g - 1
    /\ \A a \in 1..Len(TableRows) : TableRows[a].args[1] = grid_sizes[a]
    /\ \A a \in 1..(Len(TableRows) - 1) :
         /\ grid_sizes[a] < grid_sizes[a + 1]
         /\ RLess(ErrorOf(TableRows[a + 1].args[3]), ErrorOf(TableRows[a].args[3]))
         /\ FLess(TableRows[a + 1].args[4], TableRows[a].args[4])

\* C2, witness: the table has its five rows
C2_Witness ==
  /\ script = "volume" /\ pc = "L141" /\ g = 6
  /\ Len(TableRows) = 5 /\ TableRows[5].args[1] = 200

\* C3 as stated: |riemann(n) - 2/3| * n^2 <= 1/6 for every n >= 1.
C3_ErrorBoundSixth ==
  (RiemannReturned /\ arg >= 1) =>
    RLeq(RMul(ErrorOf(result), RInt(arg * arg, 1)), RInt(1, 6))

\* C3, amended: the error of riemann(n) is 1/(6 n^2) up to the rounding of the
\* double arithmetic: | |riemann(n) - 2/3| - 1/(6 n^2) | <= n^2 * 2^-52.
C3_ErrorSecondOrder ==
  (RiemannReturned /\ arg >= 1) =>
    RLeq(RAbs(RSub(ErrorOf(result), RInt(1, 6 * arg * arg))),
         RMul(RInt(arg * arg, 1), RPow2(-52)))

\* C3, witness: riemann(n) has returned, n >= 2, with an error above 1/(6 n^2)
C3_Witness ==
  /\ RiemannReturned /\ arg >= 2
  /\ RLess(RInt(1, 6 * arg * arg), ErrorOf(result))

\* C4: monteCarlo(nPoints) returns a value of [0, 2], whatever is drawn.
C4_MonteCarloRange ==
  McReturned =>
    /\ result.t = "float"
    /\ ~FLess(result, FZero)
    /\ ~FLess(FOfInt(2), result)

\* C4, witness: monteCarlo(nPoints), nPoints >= 2, has returned more than 1
C4_Witness == McReturned /\ arg >= 2 /\ rng = 2 * arg /\ FLess(One, result)

\* C5: the temperature report prints the average 149/7 as 21.3 (the average
\* is the double nearest to 149/7), the maximum 24, the minimum 19 and the
\* range 24 - 19 = 5.
C5_TemperatureSummary ==
  (script = "temp" /\ pc = "exit") =>
    /\ Len(out) = 5
    /\ out[2] = Printed(31, <<"21.3">>)
    /\ out[3] = Printed(32, <<"24">>)
    /\ out[4] = Printed(33, <<"19">>)
    /\ out[5] = Printed(34, <<"5">>)
    /\ RLeq(RAbs(RSub(RVal(TempAverage), RInt(149, 7))), RPow2(-49))

\* C5, witness: the temperature script has run to its end
C5_Witness == script = "temp" /\ pc = "exit" /\ Len(out) = 5 /\ fig.shown

\* C6 as stated: no step of the four operations changes state that outlives
\* the call; the process-wide random source is such state.
C6_NoSharedMutation == [][rng' = rng]_vars

\* C6, amended: analytical, quadrature and riemann change no state that
\* outlives the call, and a frame's locals are gone once it has returned;
\* monteCarlo changes the process-wide random source: each of its two draws
\* advances it by nPoints.
C6_OnlyMonteCarloDraws ==
  [][/\ (rng' # rng) => (fn = "monte_carlo" /\ rng' = rng + n_points)
     /\ (fn' = "none") =>
          /\ n' = 0 /\ dx' = None /\ dy' = None /\ volume' = None
          /\ x_random' = NoArray /\ y_random' = NoArray]_vars

\* C6, witness: monteCarlo has drawn, and a later riemann(n) has returned
C6_Witness == RiemannReturned /\ arg >= 1 /\ rng > 0

\* C7 as stated: once the plot is shown, nothing more is computed or
\* reported, in either script.
C7_NothingAfterRendering ==
  [][(fig # None /\ fig.shown) => out' = out]_vars

\* C7, amended: in the volume script every estimate and the whole table are
\* computed and printed before visualize_surface() is called; in the
\* temperature script the plot is built and shown first, and the summary is
\* computed and printed only after plt.show() has returned.
C7_RenderingOrder ==
  [][/\ (script = "volume" /\ fig # None) =>
          (out' = out /\ mainLocals' = mainLocals /\ fn = "none" /\ g = 6)
     /\ (script = "temp" /\ out' # out) => (fig # None /\ fig.shown)]_vars

\* C7, witness: the volume script has shown its plot, after the five rows
C7_Witness ==
  /\ script = "volume" /\ pc = "exit" /\ fig.shown
  /\ Len(TableRows) = 5 /\ out[Len(out)].line = 147

\* C8: riemann(1) returns exactly 0.5, from one cell.
C8_RiemannOfOne == (RiemannReturned /\ arg = 1) => (result = Half /\ visits = 1)

\* C8, witness: riemann(1) has returned
C8_Witness == RiemannReturned /\ arg = 1 /\ <<1, result, rng>> \in returns

\* C9: two calls of riemann with the same n return the same value, whatever
\* ran between them.
C9_Deterministic ==
  /\ \A p \in returns : \A q \in returns : p[1] = q[1] => p[2] = q[2]
  /\ RiemannReturned => \A p \in returns : p[1] = arg => p[2] = result

\* C9, witness: riemann(n), n >= 2, has returned twice, and monteCarlo has
\* drawn between the two calls
C9_Witness ==
  \E p \in returns : \E q \in returns :
    p[1] = q[1] /\ p[1] >= 2 /\ p[3] < q[3]

\* C10: riemann does not check n >= 1: riemann(0) raises ZeroDivisionError at
\* line 33, before any cell, and returns nothing; riemann(n), n < 0, visits
\* no cell and returns 0.
C10_NoValidation ==
  /\ (script = "calls" /\ op = "riemann" /\ arg = 0) =>
       /\ fn = "none" /\ raised = "ZeroDivisionError"
       /\ result = None /\ visits = 0 /\ dx = None
       /\ \A p \in returns : p[1] # 0
  /\ (script = "calls" /\ op = "riemann" /\ arg < 0) =>
       /\ visits = 0 /\ raised = "none"
       /\ fn = "none" => result = PyInt(0)

\* C10, witness: riemann(-1) has returned 0 and riemann(0) has raised
C10_Witness ==
  /\ script = "calls" /\ op = "riemann" /\ arg = 0
  /\ raised = "ZeroDivisionError"
  /\ \E p \in returns : p[1] < 0 /\ p[2] = PyInt(0)
====
